---- MODULE Spec2Model ----
(***************************************************************************)
(* Pasco School Safety scripts.                                            *)
(*                                                                         *)
(*   scripts/pasco_network_analysis.py  road network -> travel times ->    *)
(*                                      isochrone hulls -> GeoJSON         *)
(*   scripts/pasco_school_buffer.py     buffers + nearest police / fire    *)
(*   temp.py                            reproject one file to EPSG:4326    *)
(*                                                                         *)
(* Each script is a straight-line program; pc is the statement about to    *)
(* run.  GeoDataFrames live in a heap (Python reference semantics), the    *)
(* script's names are bound to heap ids in env.                            *)
(*                                                                         *)
(* Numbers.  Coordinates are integers in the units of their CRS.  Lengths  *)
(* of roads are whole metres, travel times are whole milliseconds,         *)
(* distances and buffer radii are whole centimetres.  Reprojection is an   *)
(* affine map per CRS on a common ground grid.                             *)
(***************************************************************************)
EXTENDS Integers, Sequences, FiniteSets, TLC

VARIABLES
    script,       \* which script this run executes
    pc,           \* the statement about to run
    osm,          \* the road network the download returns (input)
    has_sjoin,    \* GeoPandas offers sjoin_nearest (0.10+) (input)
    files,        \* the file system: path -> content
    heap,         \* GeoDataFrames by id
    env,          \* the script's names -> heap id (0 = unbound)
    G,            \* the network graph
    graph_crs,
    center_node,
    reachable,    \* limit -> reachable_nodes of the call with that limit
    isochrones    \* limit -> polygon returned by the call with that limit

vars == <<script, pc, osm, has_sjoin, files, heap, env, G, graph_crs,
          center_node, reachable, isochrones>>

-----------------------------------------------------------------------------
(* Bounds of the model *)

MaxEdges == 2
MaxSchools == 2
MaxStations == 2

-----------------------------------------------------------------------------
(* Arithmetic helpers *)

Abs(x) == IF x < 0 THEN 0 - x ELSE x

Max2(a, b) == IF a >= b THEN a ELSE b

MinOf(S) == CHOOSE m \in S : \A x \in S : m <= x

RECURSIVE GCD(_, _)
GCD(a, b) == IF b = 0 THEN a ELSE GCD(b, a % b)

RECURSIVE ISqrtFrom(_, _)
ISqrtFrom(n, r) == IF (r + 1) * (r + 1) > n THEN r ELSE ISqrtFrom(n, r + 1)

\* floor of the square root
ISqrt(n) == ISqrtFrom(n, 0)

RECURSIVE SeqOfSet(_)
SeqOfSet(S) ==
    IF S = {} THEN << >>
    ELSE LET m == MinOf(S) IN << m >> \o SeqOfSet(S \ {m})


-----------------------------------------------------------------------------
(* Coordinate reference systems.  Every CRS maps the ground grid to its own
   coordinates by its own scale and offset; reprojection goes through the
   ground grid. *)

CRSSet == {"EPSG:4326", "EPSG:3857", "EPSG:32617"}

\* units of the CRS per step of the ground grid
CrsScale(c) == CASE c = "EPSG:4326" -> 45
                 [] c = "EPSG:3857" -> 565
                 [] OTHER -> 500

CrsOffset(c) == CASE c = "EPSG:4326" -> 280
                  [] c = "EPSG:3857" -> 1000
                  [] OTHER -> 3000

\* coordinate of ground coordinate g in CRS c
Coord(c, g) == g * CrsScale(c) + CrsOffset(c)

\* pyproj transform of one coordinate
Transform(from, to, v) == Coord(to, (v - CrsOffset(from)) \div CrsScale(from))

\* the CRS OSMnx projects a graph of this area to (UTM zone 17N)
UtmCrs == "EPSG:32617"

-----------------------------------------------------------------------------
(* Geometries of the point layers: a point, or the disc a point is buffered
   to (r in centimetres of the CRS's metre). *)

Point(x, y) == [type |-> "Point", x |-> x, y |-> y, r |-> 0]

\* shapely buffer: the dilation of the geometry by d
Buffer(geom, d) == [type |-> "Polygon", x |-> geom.x, y |-> geom.y, r |-> geom.r + d]

\* sqrt(dx^2 + dy^2), computed on the reduced pair to stay in range
Hypot(dx, dy) ==
    LET a == Abs(dx)
        b == Abs(dy)
        g == GCD(a, b)
    IN  IF g = 0 THEN 0 ELSE g * ISqrt((a \div g) * (a \div g) + (b \div g) * (b \div g))

\* shapely distance between two geometries, in centimetres
Distance(p, q) == Max2(0, 100 * Hypot(p.x - q.x, p.y - q.y) - p.r - q.r)

\* reprojection of one geometry
TransformGeom(from, to, geom) ==
    [type |-> geom.type,
     x |-> Transform(from, to, geom.x),
     y |-> Transform(from, to, geom.y),
     r |-> (geom.r * CrsScale(to)) \div CrsScale(from)]

-----------------------------------------------------------------------------
(* GeoDataFrames: [crs, rows].  The heap is a sequence; a frame's id is its
   index. *)

Frame(crs, rows) == [crs |-> crs, rows |-> rows]

Alloc(h, frame) == Append(h, frame)

NewId(h) == Len(h) + 1

\* to_crs whose result is thrown away
to_crs_unassigned(frame, target) == frame

\* GeoDataFrame.to_crs: a new frame in the target CRS
to_crs(frame, target) ==
    Frame(target,
          [i \in 1..Len(frame.rows) |->
              [frame.rows[i] EXCEPT !.geometry = TransformGeom(frame.crs, target, @)]])

\* gpd.read_file
read_file(fs, path) == fs[path]

\* to_file that writes nothing
to_file_lost(fs, path, frame) == fs

\* GeoDataFrame.to_file
to_file(fs, path, frame) == [fs EXCEPT ![path] = frame]

NoFile == Frame("none", << >>)

-----------------------------------------------------------------------------
(* pasco_network_analysis.py: parameters *)

speed_mph == 25

\* speed_mph * 0.44704 as a fraction in lowest terms (metres per second)
speed_mps ==
    LET n == speed_mph * 2794
        d == 6250
        g == GCD(n, d)
    IN  [num |-> n \div g, den |-> d \div g]

isochrone_thresholds == << 5, 10, 15 >>

thresholds_seconds ==
    [i \in 1..Len(isochrone_thresholds) |-> isochrone_thresholds[i] * 60]

-----------------------------------------------------------------------------
(* The network graph: a MultiDiGraph [crs, nodes, xy, edges]; an edge is
   [u, v, key, data], data a dict of attributes. *)

\* the intersections of the modelled networks
NodeIds == {1, 2, 3}

\* ground position of the intersections
NodeGround(n) == CASE n = 1 -> << 0, 0 >>
                   [] n = 2 -> << 3, 0 >>
                   [] n = 3 -> << 0, 4 >>
                   [] OTHER -> << 3, 4 >>

\* dict.get(key, default)
DictGet(d, key, default) == IF key \in DOMAIN d THEN d[key] ELSE default

\* d[key] = value
DictPut(d, key, value) ==
    [a \in DOMAIN d \cup {key} |-> IF a = key THEN value ELSE d[a]]

\* ox.project_graph: the graph in the UTM CRS of its area
project_graph(Gr) ==
    [Gr EXCEPT !.crs = UtmCrs,
               !.xy = [n \in Gr.nodes |->
                          << Transform(Gr.crs, UtmCrs, Gr.xy[n][1]),
                             Transform(Gr.crs, UtmCrs, Gr.xy[n][2]) >>]]

\* length / speed_mps in milliseconds
DivSpeed(length) == (length * 1000 * speed_mps.den) \div speed_mps.num

\* the loop body without the guard on the length
TravelTimeNoGuard(data) ==
    DictPut(data, "travel_time", DivSpeed(DictGet(data, "length", 0)))

\* the body of the loop over the edges
TravelTime(data) ==
    IF DictGet(data, "length", 0) > 0
    THEN DictPut(data, "travel_time", DivSpeed(data["length"]))
    ELSE DictPut(data, "travel_time", 0)

\* the loop over G.edges(keys=True, data=True)
AddTravelTimes(Gr) ==
    [Gr EXCEPT !.edges = {[e EXCEPT !.data = TravelTime(@)] : e \in Gr.edges}]

\* ox.distance.nearest_nodes: the node closest to (x, y)
nearest_nodes(Gr, x, y) ==
    LET d(n) == Hypot(Gr.xy[n][1] - x, Gr.xy[n][2] - y)
    IN  MinOf({n \in Gr.nodes : \A m \in Gr.nodes : d(n) <= d(m)})

-----------------------------------------------------------------------------
(* nx.single_source_dijkstra_path_length *)

\* the tentative distances of the nodes on the fringe of the settled ones
Fringe(Gr, dist, weight) ==
    {<< e.v, dist[e.u] + e.data[weight] >> :
        e \in {f \in Gr.edges : f.u \in DOMAIN dist /\ f.v \notin DOMAIN dist}}

RECURSIVE DijkstraFrom(_, _, _)
DijkstraFrom(Gr, dist, weight) ==
    LET fr == Fringe(Gr, dist, weight)
    IN  IF fr = {} THEN dist
        ELSE LET best == CHOOSE c \in fr : \A o \in fr : c[2] <= o[2]
             IN  DijkstraFrom(Gr,
                     [n \in DOMAIN dist \cup {best[1]} |->
                         IF n = best[1] THEN best[2] ELSE dist[n]],
                     weight)

single_source_dijkstra_path_length(Gr, source, weight) ==
    DijkstraFrom(Gr, [n \in {source} |-> 0], weight)

-----------------------------------------------------------------------------
(* shapely MultiPoint and its convex hull *)

Cross(o, a, b) == (a[1] - o[1]) * (b[2] - o[2]) - (a[2] - o[2]) * (b[1] - o[1])

Between(q, a, b) ==
    /\ Cross(a, b, q) = 0
    /\ (q[1] - a[1]) * (q[1] - b[1]) <= 0
    /\ (q[2] - a[2]) * (q[2] - b[2]) <= 0

InTriangle(q, a, b, c) ==
    LET d1 == Cross(a, b, q)
        d2 == Cross(b, c, q)
        d3 == Cross(c, a, q)
    IN  ~ ((d1 < 0 \/ d2 < 0 \/ d3 < 0) /\ (d1 > 0 \/ d2 > 0 \/ d3 > 0))

\* q lies in the convex hull of the points P
InHullOf(q, P) ==
    \/ q \in P
    \/ \E a, b \in P : Between(q, a, b)
    \/ \E a, b, c \in P : Cross(a, b, c) # 0 /\ InTriangle(q, a, b, c)

Collinear(P) == \A a, b, c \in P : Cross(a, b, c) = 0

None == [type |-> "None", vertices |-> {}]

\* MultiPoint(points).convex_hull: a Point, a LineString or a Polygon on
\* the extreme points
convex_hull(P) ==
    [type |-> IF P = {} THEN "GeometryCollection"
              ELSE IF Cardinality(P) = 1 THEN "Point"
              ELSE IF Collinear(P) THEN "LineString"
              ELSE "Polygon",
     vertices |-> {p \in P : ~ InHullOf(p, P \ {p})}]

\* the emptiness test inverted
is_empty_inverted(P) == P # {}

\* MultiPoint(points).is_empty
is_empty(P) == P = {}

-----------------------------------------------------------------------------
(* generate_isochrone; the result carries the local reachable_nodes *)

\* the filter with a strict comparison
WithinLimitStrict(t, travel_time_limit) == t < travel_time_limit * 1000

\* the filter with the comparison turned around
WithinLimitInverted(t, travel_time_limit) == t >= travel_time_limit * 1000

\* the filter of the list comprehension
WithinLimit(t, travel_time_limit) == t <= travel_time_limit * 1000

\* the filter that also drops the nodes at travel time 0
ReachableNodesNoSource(travel_times, travel_time_limit) ==
    {n \in DOMAIN travel_times :
        travel_times[n] > 0 /\ WithinLimit(travel_times[n], travel_time_limit)}

ReachableNodes(travel_times, travel_time_limit) ==
    {n \in DOMAIN travel_times : WithinLimit(travel_times[n], travel_time_limit)}

generate_isochrone(Gr, center, travel_time_limit) ==
    LET travel_times == single_source_dijkstra_path_length(Gr, center, "travel_time")
        reachable_nodes == ReachableNodes(travel_times, travel_time_limit)
        multipoint == {Gr.xy[n] : n \in reachable_nodes}
    IN  [reachable_nodes |-> reachable_nodes,
         poly |-> IF is_empty(multipoint) THEN None ELSE convex_hull(multipoint)]

-----------------------------------------------------------------------------
(* Files, names and the program counter *)

schools_fp == "data/Pasco_Schools.geojson"
police_fp == "data/Pasco_Police_Stations.geojson"
fire_fp == "data/Pasco_Fire_Stations.geojson"
county_fp == "data/Pasco_County_Boundary.geojson"
isochrone_output_fp == "data/isochrones.geojson"
buffer_0_5_fp == "Data/Schools_Buffer_0.5_Mile.geojson"
buffer_1_fp == "Data/Schools_Buffer_1_Mile.geojson"
buffer_1_5_fp == "Data/Schools_Buffer_1.5_Mile.geojson"
processed_fp == "Data/Processed_Schools.geojson"
analyzed_fp == "Data/All_School_Buffers_Analyzed.geojson"
analyzed_4326_fp == "Data/All_School_Buffers_Analyzed_4326.geojson"

InputPaths == {schools_fp, police_fp, fire_fp, county_fp, analyzed_fp}

NetworkOutputs == {isochrone_output_fp}
BufferOutputs == {buffer_0_5_fp, buffer_1_fp, buffer_1_5_fp, processed_fp}
ReprojectOutputs == {analyzed_4326_fp}

Paths == InputPaths \cup NetworkOutputs \cup BufferOutputs \cup ReprojectOutputs

\* the output files of the running script
Outputs == CASE script = "network" -> NetworkOutputs
             [] script = "buffer" -> BufferOutputs
             [] script = "reproject" -> ReprojectOutputs
             [] OTHER -> {}

Written == {p \in Outputs : files[p] # NoFile}

NoEnv == [schools |-> 0, police |-> 0, fire |-> 0, county |-> 0,
          schools_buffer_0_5 |-> 0, schools_buffer_1 |-> 0, schools_buffer_1_5 |-> 0,
          schools_with_police |-> 0, schools_with_fire |-> 0,
          isochrone_gdf |-> 0, school_buffers |-> 0, buffers_4326 |-> 0]

NoGraph == [crs |-> "none", nodes |-> {}, xy |-> << >>, edges |-> {}]

At(l) == pc.at = l

Goto(l) == pc' = [at |-> l, i |-> 0]

GotoIter(l, i) == pc' = [at |-> l, i |-> i]

\* an uncaught exception ends the run
Raise == Goto("failed")

-----------------------------------------------------------------------------
(* The inputs a run can find *)

LengthChoices == << 0, -5, 500, 3000 >>

\* the attributes of a downloaded edge; the last choice carries no length
EdgeData(d) ==
    IF d <= Len(LengthChoices) THEN [a \in {"length"} |-> LengthChoices[d]]
    ELSE [a \in {"highway"} |-> 1]

NumEdgeData == Len(LengthChoices) + 1

\* the i-th choice of an edge between two of n nodes
EdgeChoice(n, i) ==
    LET p == (i - 1) \div NumEdgeData
        u == (p \div (n - 1)) + 1
        w == (p % (n - 1)) + 1
    IN  [u |-> u, v |-> IF w >= u THEN w + 1 ELSE w,
         data |-> EdgeData(((i - 1) % NumEdgeData) + 1)]

NumEdgeChoices(n) == n * (n - 1) * NumEdgeData

\* the edges of a sequence of choices; parallel edges get keys 0, 1, ...
EdgesOf(cs) ==
    {[u |-> cs[i].u, v |-> cs[i].v,
      key |-> Cardinality({j \in 1..(i - 1) : cs[j].u = cs[i].u /\ cs[j].v = cs[i].v}),
      data |-> cs[i].data] : i \in 1..Len(cs)}

\* the edge sets of up to MaxEdges edges, each from one ordered choice
EdgeSets(n) ==
    {EdgesOf([j \in DOMAIN ix |-> EdgeChoice(n, ix[j])]) :
        ix \in UNION {{f \in [1..k -> 1..NumEdgeChoices(n)] :
                          \A j \in 1..(k - 1) : f[j] <= f[j + 1]} : k \in 0..MaxEdges}}

\* the road networks the download can return, in geographic coordinates
OsmGraphs ==
    UNION {{[crs |-> "EPSG:4326",
             nodes |-> 1..n,
             xy |-> [m \in 1..n |-> << Coord("EPSG:4326", NodeGround(m)[1]),
                                       Coord("EPSG:4326", NodeGround(m)[2]) >>],
             edges |-> es] : es \in EdgeSets(n)} : n \in NodeIds}

\* ground positions of schools and stations
Grounds == {NodeGround(n) : n \in NodeIds}
SchoolGrounds == << NodeGround(1), NodeGround(4) >>
PoliceGrounds == << NodeGround(2), NodeGround(3), NodeGround(4) >>
FireGrounds == << NodeGround(1), NodeGround(2) >>

PointRow(crs, name, g) ==
    [name |-> name, geometry |-> Point(Coord(crs, g[1]), Coord(crs, g[2]))]

\* the point layers a file of lo to max features can hold
PointFiles(lo, max) ==
    {Frame(crs, [i \in DOMAIN gs |-> PointRow(crs, i, gs[i])]) :
        crs \in CRSSet, gs \in UNION {[1..k -> Grounds] : k \in lo..max}}

\* the school layers of 1 to MaxSchools schools at the school positions
SchoolFiles ==
    {Frame(crs, [i \in DOMAIN ix |-> PointRow(crs, i, SchoolGrounds[ix[i]])]) :
        crs \in CRSSet,
        ix \in UNION {[1..k -> DOMAIN SchoolGrounds] : k \in 1..MaxSchools}}

\* the station layers of 1 to MaxStations stations at distinct positions
StationFiles(grounds) ==
    {Frame(crs, [i \in 1..Cardinality(S) |-> PointRow(crs, i, grounds[SeqOfSet(S)[i]])]) :
        crs \in CRSSet,
        S \in {T \in SUBSET (DOMAIN grounds) : T # {} /\ Cardinality(T) <= MaxStations}}

-----------------------------------------------------------------------------
(* pasco_network_analysis.py, statement by statement *)

\* isochrones[key] = value on an insertion-ordered dict of [key, value] entries
DictSet(d, key, value) ==
    IF \E i \in 1..Len(d) : d[i].key = key
    THEN [i \in 1..Len(d) |-> IF d[i].key = key THEN [key |-> key, value |-> value] ELSE d[i]]
    ELSE Append(d, [key |-> key, value |-> value])

Keys(d) == {d[i].key : i \in 1..Len(d)}

Lookup(d, key) == (CHOOSE e \in {d[i] : i \in 1..Len(d)} : e.key = key).value

\* the condition of the export loop
Exported(poly) == poly # None

\* GeoDataFrame._append of one row
AppendRow(frame, row) == [frame EXCEPT !.rows = Append(@, row)]

\* line 48: G = ox.graph_from_place(...)
N48_Download ==
    /\ script = "network" /\ At("n48")
    /\ G' = osm
    /\ Goto("n53")
    /\ UNCHANGED << script, osm, has_sjoin, files, heap, env, graph_crs,
                    center_node, reachable, isochrones >>

\* line 53: G = ox.project_graph(G)
N53_Project ==
    /\ script = "network" /\ At("n53")
    /\ G' = project_graph(G)
    /\ Goto("n58")
    /\ UNCHANGED << script, osm, has_sjoin, files, heap, env, graph_crs,
                    center_node, reachable, isochrones >>

\* lines 58-62: the travel_time of every edge
N58_TravelTime ==
    /\ script = "network" /\ At("n58")
    /\ G' = AddTravelTimes(G)
    /\ Goto("n70")
    /\ UNCHANGED << script, osm, has_sjoin, files, heap, env, graph_crs,
                    center_node, reachable, isochrones >>

\* line 70: schools = gpd.read_file(schools_fp)
N70_ReadSchools ==
    /\ script = "network" /\ At("n70")
    /\ heap' = Alloc(heap, read_file(files, schools_fp))
    /\ env' = [env EXCEPT !.schools = NewId(heap)]
    /\ Goto("n74")
    /\ UNCHANGED << script, osm, has_sjoin, files, G, graph_crs,
                    center_node, reachable, isochrones >>

\* lines 73-74: graph_crs = ox.graph_to_gdfs(G, ...).crs
N74_GraphCrs ==
    /\ script = "network" /\ At("n74")
    /\ graph_crs' = G.crs
    /\ Goto("n75")
    /\ UNCHANGED << script, osm, has_sjoin, files, heap, env, G,
                    center_node, reachable, isochrones >>

\* line 75: schools = schools.to_crs(graph_crs)
N75_ToCrs ==
    /\ script = "network" /\ At("n75")
    /\ heap' = Alloc(heap, to_crs(heap[env.schools], graph_crs))
    /\ env' = [env EXCEPT !.schools = NewId(heap)]
    /\ Goto("n78")
    /\ UNCHANGED << script, osm, has_sjoin, files, G, graph_crs,
                    center_node, reachable, isochrones >>

\* lines 78-92: the first school and its nearest node; iloc[0] raises
\* IndexError on a layer without features
N78_NearestNode ==
    /\ script = "network" /\ At("n78")
    /\ IF Len(heap[env.schools].rows) = 0
       THEN Raise /\ UNCHANGED center_node
       ELSE LET school_point == heap[env.schools].rows[1].geometry
            IN  /\ center_node' = nearest_nodes(G, school_point.x, school_point.y)
                /\ GotoIter("n134", 1)
    /\ UNCHANGED << script, osm, has_sjoin, files, heap, env, G, graph_crs,
                    reachable, isochrones >>

\* lines 134-137: one iteration of the loop over thresholds_seconds
N134_Generate ==
    /\ script = "network" /\ At("n134") /\ pc.i <= Len(thresholds_seconds)
    /\ LET t_seconds == thresholds_seconds[pc.i]
           res == generate_isochrone(G, center_node, t_seconds)
       IN  /\ isochrones' = DictSet(isochrones, t_seconds, res.poly)
           /\ reachable' = DictPut(reachable, t_seconds, res.reachable_nodes)
    /\ GotoIter("n134", pc.i + 1)
    /\ UNCHANGED << script, osm, has_sjoin, files, heap, env, G, graph_crs,
                    center_node >>

\* line 144: isochrone_gdf = gpd.GeoDataFrame(columns=..., crs=graph_crs)
N144_NewFrame ==
    /\ script = "network" /\ At("n134") /\ pc.i > Len(thresholds_seconds)
    /\ heap' = Alloc(heap, Frame(graph_crs, << >>))
    /\ env' = [env EXCEPT !.isochrone_gdf = NewId(heap)]
    /\ GotoIter("n146", 1)
    /\ UNCHANGED << script, osm, has_sjoin, files, G, graph_crs,
                    center_node, reachable, isochrones >>

\* lines 146-149: one iteration of the loop over isochrones.items()
N146_Append ==
    /\ script = "network" /\ At("n146") /\ pc.i <= Len(isochrones)
    /\ LET t_seconds == isochrones[pc.i].key
           poly == isochrones[pc.i].value
       IN  IF Exported(poly)
           THEN /\ heap' = Alloc(heap, AppendRow(heap[env.isochrone_gdf],
                                    [travel_time |-> t_seconds, geometry |-> poly]))
                /\ env' = [env EXCEPT !.isochrone_gdf = NewId(heap)]
           ELSE UNCHANGED << heap, env >>
    /\ GotoIter("n146", pc.i + 1)
    /\ UNCHANGED << script, osm, has_sjoin, files, G, graph_crs,
                    center_node, reachable, isochrones >>

\* line 153: isochrone_gdf.to_file(isochrone_output_fp, driver="GeoJSON")
N153_ToFile ==
    /\ script = "network" /\ At("n146") /\ pc.i > Len(isochrones)
    /\ files' = to_file(files, isochrone_output_fp, heap[env.isochrone_gdf])
    /\ Goto("done")
    /\ UNCHANGED << script, osm, has_sjoin, heap, env, G, graph_crs,
                    center_node, reachable, isochrones >>

NextNet ==
    \/ N48_Download \/ N53_Project \/ N58_TravelTime \/ N70_ReadSchools
    \/ N74_GraphCrs \/ N75_ToCrs \/ N78_NearestNode \/ N134_Generate
    \/ N144_NewFrame \/ N146_Append \/ N153_ToFile

InitNet ==
    /\ script = "network"
    /\ pc = [at |-> "n48", i |-> 0]
    /\ osm \in OsmGraphs
    /\ has_sjoin = TRUE
    /\ \E f \in PointFiles(0, 1) :
          files = [p \in Paths |-> IF p = schools_fp THEN f ELSE NoFile]
    /\ heap = << >>
    /\ env = NoEnv
    /\ G = NoGraph
    /\ graph_crs = "none"
    /\ center_node = 0
    /\ reachable = << >>
    /\ isochrones = << >>

SpecNet == InitNet /\ [][NextNet]_vars

-----------------------------------------------------------------------------
(* generate_isochrone called on a prepared graph with any center and any
   limits, in increasing order of the limit *)

Limits == {-1, 0, 60, 300}

Call(limit) ==
    /\ script = "call" /\ At("call")
    /\ \A k \in Keys(isochrones) : k < limit
    /\ LET res == generate_isochrone(G, center_node, limit)
       IN  /\ isochrones' = DictSet(isochrones, limit, res.poly)
           /\ reachable' = DictPut(reachable, limit, res.reachable_nodes)
    /\ UNCHANGED << script, pc, osm, has_sjoin, files, heap, env, G, graph_crs,
                    center_node >>

NextCall == \E limit \in Limits : Call(limit)

InitCall ==
    /\ script = "call"
    /\ pc = [at |-> "call", i |-> 0]
    /\ osm \in OsmGraphs
    /\ has_sjoin = TRUE
    /\ files = [p \in Paths |-> NoFile]
    /\ heap = << >>
    /\ env = NoEnv
    /\ G = AddTravelTimes(project_graph(osm))
    /\ graph_crs = G.crs
    /\ center_node \in G.nodes
    /\ reachable = << >>
    /\ isochrones = << >>

SpecCall == InitCall /\ [][NextCall]_vars

SpecIso == (InitNet \/ InitCall) /\ [][NextNet \/ NextCall]_vars

-----------------------------------------------------------------------------
(* Shortest travel times, stated on directed walks *)

\* << node, cost >> of the directed walks from c of at most k edges
RECURSIVE WalkCosts(_, _, _)
WalkCosts(Gr, c, k) ==
    IF k = 0 THEN {<< c, 0 >>}
    ELSE LET W == WalkCosts(Gr, c, k - 1)
         IN  W \cup {<< s[1].v, s[2][2] + s[1].data["travel_time"] >> :
                        s \in {t \in Gr.edges \X W : t[1].u = t[2][1]}}

\* the travel times of the walks from the center that end in n
CostsTo(n) ==
    {w[2] : w \in {x \in WalkCosts(G, center_node, Cardinality(G.nodes)) : x[1] = n}}

\* n has a directed path from the center of travel time <= limit seconds
PathWithin(n, limit) == \E t \in CostsTo(n) : t <= limit * 1000

\* the coordinates of the nodes reachable at a limit
PointsAt(limit) == {G.xy[n] : n \in reachable[limit]}

Called == DOMAIN reachable

-----------------------------------------------------------------------------
(* C1: generate_isochrone selects exactly the nodes that have a directed
   path from the center of travel time <= the limit (later nodes and nodes
   without a path are left out), returns None exactly when no node is
   selected, and otherwise returns the convex hull of the selected nodes'
   coordinates: a geometry on extreme points of the selection that covers
   every selected point. *)
C1_ExactReachableSet ==
    script = "call" =>
        \A limit \in Called :
            LET poly == Lookup(isochrones, limit)
            IN  /\ reachable[limit] = {n \in G.nodes : PathWithin(n, limit)}
                /\ (poly = None) <=> (reachable[limit] = {})
                /\ poly # None =>
                      /\ poly.vertices \subseteq PointsAt(limit)
                      /\ \A q \in PointsAt(limit) : InHullOf(q, poly.vertices)
                      /\ (poly.type = "Polygon") <=> ~ Collinear(PointsAt(limit))

\* a call that keeps a node besides the center and leaves a node out, and a
\* call that returns None
C1_Witness ==
    /\ script = "call"
    /\ \E limit \in Called :
          /\ reachable[limit] \ {center_node} # {}
          /\ G.nodes \ reachable[limit] # {}
          /\ \E n \in G.nodes \ reachable[limit] : CostsTo(n) # {}
    /\ \E limit \in Called : Lookup(isochrones, limit) = None

(* C2: for limits t1 < t2 the nodes selected at t1 are among the nodes
   selected at t2; the sets of the script's 300, 600 and 900 seconds are
   nested. *)
C2_Monotone ==
    \A t1, t2 \in Called : t1 < t2 => reachable[t1] \subseteq reachable[t2]

\* the script's run in which 600 seconds reach more than 300 seconds
C2_Witness ==
    /\ script = "network"
    /\ {300, 600, 900} \subseteq Called
    /\ reachable[300] # reachable[600]
    /\ reachable[300] # {center_node}

-----------------------------------------------------------------------------
(* C3 *)

\* the nodes joined to the center by edges of travel_time 0
RECURSIVE ZeroClosure(_)
ZeroClosure(S) ==
    LET T == S \cup {e.v : e \in {f \in G.edges : f.u \in S /\ f.data["travel_time"] = 0}}
    IN  IF T = S THEN S ELSE ZeroClosure(T)

(* C3 as stated: for every prepared graph and center, limit 0 selects only
   the center, and the result is the single point at the center. *)
C3_OnlyCenterAtZero ==
    (script = "call" /\ 0 \in Called) =>
        /\ reachable[0] = {center_node}
        /\ Lookup(isochrones, 0).type = "Point"

(* C3 amended: limit 0 selects exactly the center and the nodes joined to
   it by a directed path of edges of travel_time 0 (edges whose length is
   missing, zero or negative); when no edge of travel_time 0 leaves the
   center it selects only the center and the result is the single point at
   the center. *)
C3_ZeroClosureAtZero ==
    (script = "call" /\ 0 \in Called) =>
        /\ reachable[0] = ZeroClosure({center_node})
        /\ (\A e \in G.edges : e.u = center_node => e.data["travel_time"] > 0) =>
              /\ reachable[0] = {center_node}
              /\ Lookup(isochrones, 0) =
                    [type |-> "Point", vertices |-> {G.xy[center_node]}]

\* a call at limit 0 from a center with edges, all of positive travel time
C3_Witness ==
    /\ script = "call" /\ 0 \in Called
    /\ \E e \in G.edges : e.u = center_node
    /\ \A e \in G.edges : e.u = center_node => e.data["travel_time"] > 0
    /\ reachable[0] = {center_node}

-----------------------------------------------------------------------------
(* C7 *)

(* C7 as stated: the isochrone at 300 seconds contains the center's
   position and selects strictly more nodes than the one at 60 seconds. *)
C7_StrictSuperset ==
    (script = "call" /\ {60, 300} \subseteq Called) =>
        /\ InHullOf(G.xy[center_node], Lookup(isochrones, 300).vertices)
        /\ reachable[60] \subseteq reachable[300]
        /\ reachable[60] # reachable[300]

(* C7 amended: the isochrone at 300 seconds contains the center's position
   and selects every node selected at 60 seconds; it selects strictly more
   exactly when some node's shortest travel time from the center is above
   60 and at most 300 seconds. *)
C7_Superset ==
    (script = "call" /\ {60, 300} \subseteq Called) =>
        /\ center_node \in reachable[300]
        /\ InHullOf(G.xy[center_node], Lookup(isochrones, 300).vertices)
        /\ reachable[60] \subseteq reachable[300]
        /\ (reachable[60] # reachable[300]) <=>
              \E n \in G.nodes : PathWithin(n, 300) /\ ~ PathWithin(n, 60)

\* calls at 60 and 300 seconds where 300 reaches a node that 60 does not
C7_Witness ==
    /\ script = "call" /\ {60, 300} \subseteq Called
    /\ reachable[60] # reachable[300]
    /\ reachable[60] # {center_node}

-----------------------------------------------------------------------------
(* C9, C4, C5: the network script *)

\* the travel times have been assigned
Prepared == script = "network" /\ pc.at \notin {"n48", "n53", "n58"}

(* C9: after the edge loop every edge (u, v, key) of the downloaded graph
   carries a travel_time that is not negative: length / speed_mps (to the
   millisecond) when the edge has a length > 0, and 0 when the length is
   missing, zero or negative. *)
C9_TravelTimeNonNegative ==
    Prepared =>
        /\ {<< e.u, e.v, e.key >> : e \in G.edges} =
              {<< e.u, e.v, e.key >> : e \in osm.edges}
        /\ \A e \in G.edges :
              /\ "travel_time" \in DOMAIN e.data
              /\ e.data["travel_time"] >= 0
              /\ \E o \in osm.edges :
                    /\ << o.u, o.v, o.key >> = << e.u, e.v, e.key >>
                    /\ IF "length" \in DOMAIN o.data /\ o.data["length"] > 0
                       THEN LET tt == e.data["travel_time"]
                                mm == o.data["length"] * 1000 * speed_mps.den
                            IN  tt * speed_mps.num <= mm /\ mm < (tt + 1) * speed_mps.num
                       ELSE e.data["travel_time"] = 0

\* a prepared graph with an edge of positive length and one of negative
\* length
C9_Witness ==
    /\ Prepared
    /\ \E e \in G.edges : e.data["travel_time"] > 0
    /\ \E e \in G.edges : "length" \in DOMAIN e.data /\ e.data["length"] < 0

\* the features of the isochrone layer and of the exported file
IsochroneRows ==
    (IF env.isochrone_gdf = 0 THEN {}
     ELSE {heap[env.isochrone_gdf].rows[i] : i \in 1..Len(heap[env.isochrone_gdf].rows)})
    \cup {files[isochrone_output_fp].rows[i] :
             i \in 1..Len(files[isochrone_output_fp].rows)}

(* C4: no feature is appended to isochrone_gdf or exported for a threshold
   whose reachable-node set has zero or one node: every feature comes from
   a threshold with at least two reachable nodes. *)
C4_DegenerateSkipped ==
    script = "network" =>
        \A row \in IsochroneRows : Cardinality(reachable[row.travel_time]) >= 2

(* C5: a run in which some threshold yields no polygon (None) writes no
   file, and a written data/isochrones.geojson is not empty and holds a
   feature for every requested threshold. *)
C5_NoPartialOutput ==
    script = "network" =>
        /\ (\E i \in 1..Len(isochrones) : isochrones[i].value = None) => Written = {}
        /\ Written # {} =>
              /\ files[isochrone_output_fp].rows # << >>
              /\ \A i \in 1..Len(thresholds_seconds) :
                    \E j \in 1..Len(files[isochrone_output_fp].rows) :
                       files[isochrone_output_fp].rows[j].travel_time = thresholds_seconds[i]

\* the run that has written the file
C5_Witness ==
    /\ script = "network" /\ At("done")
    /\ Len(files[isochrone_output_fp].rows) = Len(thresholds_seconds)

-----------------------------------------------------------------------------
(* pasco_school_buffer.py, statement by statement *)

target_crs == "EPSG:3857"

\* centimetres per mile (1609.34 m)
mile == 160934

buffer_distances ==
    [k \in {"0.5_mile", "1_mile", "1.5_mile"} |->
        CASE k = "0.5_mile" -> (5 * mile) \div 10
          [] k = "1_mile" -> mile
          [] OTHER -> (15 * mile) \div 10]

\* a second name for the same frame instead of a copy
copy_alias(h, id) == [heap |-> h, id |-> id]

\* frame.copy() binding the copy to its own id
copy(h, id) == [heap |-> Alloc(h, h[id]), id |-> NewId(h)]

\* frame["geometry"] = frame.geometry.buffer(d), in place
SetBuffered(h, id, d) ==
    [h EXCEPT ![id].rows =
        [i \in 1..Len(@) |-> [@[i] EXCEPT !.geometry = Buffer(@, d)]]]

\* frame[['geometry']]
OnlyGeometry(frame) ==
    Frame(frame.crs, [i \in 1..Len(frame.rows) |-> [geometry |-> frame.rows[i].geometry]])

\* the rows of right nearest to a geometry
NearestOf(geom, right) ==
    {j \in 1..Len(right.rows) :
        \A k \in 1..Len(right.rows) :
            Distance(geom, right.rows[j].geometry) <= Distance(geom, right.rows[k].geometry)}

RECURSIVE JoinFrom(_, _, _, _)
JoinFrom(left, right, distance_col, i) ==
    IF i > Len(left.rows) THEN << >>
    ELSE LET row == left.rows[i]
             js == SeqOfSet(NearestOf(row.geometry, right))
         IN  [n \in 1..Len(js) |->
                 DictPut(DictPut(row, "index_right", js[n] - 1), distance_col,
                         Distance(row.geometry, right.rows[js[n]].geometry))]
             \o JoinFrom(left, right, distance_col, i + 1)

\* left.sjoin_nearest(right, how="left", distance_col=...)
sjoin_nearest(left, right, distance_col) ==
    Frame(left.crs, JoinFrom(left, right, distance_col, 1))

\* frame.drop(columns=[col], errors='ignore')
drop(frame, col) ==
    Frame(frame.crs,
          [i \in 1..Len(frame.rows) |->
              [a \in DOMAIN frame.rows[i] \ {col} |-> frame.rows[i][a]]])

BufferUnchanged == << script, osm, has_sjoin, G, graph_crs, center_node,
                      reachable, isochrones >>

\* lines 26-29: the four gpd.read_file calls
B26_Read ==
    /\ script = "buffer" /\ At("b26")
    /\ heap' = heap \o << read_file(files, schools_fp), read_file(files, police_fp),
                          read_file(files, fire_fp), read_file(files, county_fp) >>
    /\ env' = [env EXCEPT !.schools = Len(heap) + 1, !.police = Len(heap) + 2,
                          !.fire = Len(heap) + 3, !.county = Len(heap) + 4]
    /\ Goto("b41")
    /\ UNCHANGED files /\ UNCHANGED BufferUnchanged

\* if layer.crs != target_crs: layer = layer.to_crs(target_crs)
Reproject(h, id) ==
    IF h[id].crs # target_crs
    THEN [heap |-> Alloc(h, to_crs(h[id], target_crs)), id |-> NewId(h)]
    ELSE [heap |-> h, id |-> id]

\* lines 41-42
B41_Schools ==
    /\ script = "buffer" /\ At("b41")
    /\ LET r == Reproject(heap, env.schools)
       IN  heap' = r.heap /\ env' = [env EXCEPT !.schools = r.id]
    /\ Goto("b43")
    /\ UNCHANGED files /\ UNCHANGED BufferUnchanged

\* lines 43-44
B43_Police ==
    /\ script = "buffer" /\ At("b43")
    /\ LET r == Reproject(heap, env.police)
       IN  heap' = r.heap /\ env' = [env EXCEPT !.police = r.id]
    /\ Goto("b45")
    /\ UNCHANGED files /\ UNCHANGED BufferUnchanged

\* lines 45-46
B45_Fire ==
    /\ script = "buffer" /\ At("b45")
    /\ LET r == Reproject(heap, env.fire)
       IN  heap' = r.heap /\ env' = [env EXCEPT !.fire = r.id]
    /\ Goto("b47")
    /\ UNCHANGED files /\ UNCHANGED BufferUnchanged

\* lines 47-48
B47_County ==
    /\ script = "buffer" /\ At("b47")
    /\ LET r == Reproject(heap, env.county)
       IN  heap' = r.heap /\ env' = [env EXCEPT !.county = r.id]
    /\ Goto("b63")
    /\ UNCHANGED files /\ UNCHANGED BufferUnchanged

\* lines 63-64
B63_Buffer_0_5 ==
    /\ script = "buffer" /\ At("b63")
    /\ LET c == copy(heap, env.schools)
       IN  /\ heap' = SetBuffered(c.heap, c.id, buffer_distances["0.5_mile"])
           /\ env' = [env EXCEPT !.schools_buffer_0_5 = c.id]
    /\ Goto("b66")
    /\ UNCHANGED files /\ UNCHANGED BufferUnchanged

\* lines 66-67
B66_Buffer_1 ==
    /\ script = "buffer" /\ At("b66")
    /\ LET c == copy(heap, env.schools)
       IN  /\ heap' = SetBuffered(c.heap, c.id, buffer_distances["1_mile"])
           /\ env' = [env EXCEPT !.schools_buffer_1 = c.id]
    /\ Goto("b69")
    /\ UNCHANGED files /\ UNCHANGED BufferUnchanged

\* lines 69-70
B69_Buffer_1_5 ==
    /\ script = "buffer" /\ At("b69")
    /\ LET c == copy(heap, env.schools)
       IN  /\ heap' = SetBuffered(c.heap, c.id, buffer_distances["1.5_mile"])
           /\ env' = [env EXCEPT !.schools_buffer_1_5 = c.id]
    /\ Goto("b73")
    /\ UNCHANGED files /\ UNCHANGED BufferUnchanged

\* line 73
B73_Export_0_5 ==
    /\ script = "buffer" /\ At("b73")
    /\ files' = to_file(files, buffer_0_5_fp, heap[env.schools_buffer_0_5])
    /\ Goto("b74")
    /\ UNCHANGED << heap, env >> /\ UNCHANGED BufferUnchanged

\* line 74
B74_Export_1 ==
    /\ script = "buffer" /\ At("b74")
    /\ files' = to_file(files, buffer_1_fp, heap[env.schools_buffer_1])
    /\ Goto("b75")
    /\ UNCHANGED << heap, env >> /\ UNCHANGED BufferUnchanged

\* line 75
B75_Export_1_5 ==
    /\ script = "buffer" /\ At("b75")
    /\ files' = to_file(files, buffer_1_5_fp, heap[env.schools_buffer_1_5])
    /\ Goto("b86")
    /\ UNCHANGED << heap, env >> /\ UNCHANGED BufferUnchanged

\* lines 86-90; a GeoPandas before 0.10 has no sjoin_nearest and raises
\* AttributeError
B86_JoinPolice ==
    /\ script = "buffer" /\ At("b86")
    /\ IF has_sjoin
       THEN /\ heap' = Alloc(heap, sjoin_nearest(heap[env.schools],
                                      OnlyGeometry(heap[env.police]), "dist_to_police"))
            /\ env' = [env EXCEPT !.schools_with_police = NewId(heap)]
            /\ Goto("b93")
       ELSE Raise /\ UNCHANGED << heap, env >>
    /\ UNCHANGED files /\ UNCHANGED BufferUnchanged

\* line 93
B93_Drop ==
    /\ script = "buffer" /\ At("b93")
    /\ heap' = Alloc(heap, drop(heap[env.schools_with_police], "index_right"))
    /\ env' = [env EXCEPT !.schools_with_police = NewId(heap)]
    /\ Goto("b97")
    /\ UNCHANGED files /\ UNCHANGED BufferUnchanged

\* lines 97-101
B97_JoinFire ==
    /\ script = "buffer" /\ At("b97")
    /\ heap' = Alloc(heap, sjoin_nearest(heap[env.schools_with_police],
                               OnlyGeometry(heap[env.fire]), "dist_to_fire"))
    /\ env' = [env EXCEPT !.schools_with_fire = NewId(heap)]
    /\ Goto("b113")
    /\ UNCHANGED files /\ UNCHANGED BufferUnchanged

\* line 113
B113_Export ==
    /\ script = "buffer" /\ At("b113")
    /\ files' = to_file(files, processed_fp, heap[env.schools_with_fire])
    /\ Goto("done")
    /\ UNCHANGED << heap, env >> /\ UNCHANGED BufferUnchanged

NextBuf ==
    \/ B26_Read \/ B41_Schools \/ B43_Police \/ B45_Fire \/ B47_County
    \/ B63_Buffer_0_5 \/ B66_Buffer_1 \/ B69_Buffer_1_5
    \/ B73_Export_0_5 \/ B74_Export_1 \/ B75_Export_1_5
    \/ B86_JoinPolice \/ B93_Drop \/ B97_JoinFire \/ B113_Export

InitBuf ==
    /\ script = "buffer"
    /\ pc = [at |-> "b26", i |-> 0]
    /\ osm = NoGraph
    /\ has_sjoin \in BOOLEAN
    /\ \E s \in SchoolFiles, p \in StationFiles(PoliceGrounds),
          f \in StationFiles(FireGrounds), ccrs \in CRSSet :
          files = [q \in Paths |->
                      CASE q = schools_fp -> s
                        [] q = police_fp -> p
                        [] q = fire_fp -> f
                        [] q = county_fp -> Frame(ccrs, << >>)
                        [] OTHER -> NoFile]
    /\ heap = << >>
    /\ env = NoEnv
    /\ G = NoGraph
    /\ graph_crs = "none"
    /\ center_node = 0
    /\ reachable = << >>
    /\ isochrones = << >>

SpecBuf == InitBuf /\ [][NextBuf]_vars

-----------------------------------------------------------------------------
(* temp.py, statement by statement *)

\* the analysed buffer layers the file can hold
AnalyzedFiles ==
    {Frame(crs, [i \in 1..k |->
                    [name |-> i,
                     geometry |-> Buffer(PointRow(crs, i, SchoolGrounds[i]).geometry,
                                         (mile * CrsScale(crs)) \div CrsScale(target_crs))]]) :
        crs \in CRSSet, k \in 0..Len(SchoolGrounds)}

\* line 4
T4_Read ==
    /\ script = "reproject" /\ At("t4")
    /\ heap' = Alloc(heap, read_file(files, analyzed_fp))
    /\ env' = [env EXCEPT !.school_buffers = NewId(heap)]
    /\ Goto("t6")
    /\ UNCHANGED files /\ UNCHANGED BufferUnchanged

\* line 6
T6_ToCrs ==
    /\ script = "reproject" /\ At("t6")
    /\ heap' = Alloc(heap, to_crs(heap[env.school_buffers], "EPSG:4326"))
    /\ env' = [env EXCEPT !.buffers_4326 = NewId(heap)]
    /\ Goto("t7")
    /\ UNCHANGED files /\ UNCHANGED BufferUnchanged

\* line 7
T7_ToFile ==
    /\ script = "reproject" /\ At("t7")
    /\ files' = to_file(files, analyzed_4326_fp, heap[env.buffers_4326])
    /\ Goto("done")
    /\ UNCHANGED << heap, env >> /\ UNCHANGED BufferUnchanged

NextTemp == T4_Read \/ T6_ToCrs \/ T7_ToFile

InitTemp ==
    /\ script = "reproject"
    /\ pc = [at |-> "t4", i |-> 0]
    /\ osm = NoGraph
    /\ has_sjoin = TRUE
    /\ \E f \in AnalyzedFiles :
          files = [q \in Paths |-> IF q = analyzed_fp THEN f ELSE NoFile]
    /\ heap = << >>
    /\ env = NoEnv
    /\ G = NoGraph
    /\ graph_crs = "none"
    /\ center_node = 0
    /\ reachable = << >>
    /\ isochrones = << >>

-----------------------------------------------------------------------------
(* The scripts *)

Init == InitNet \/ InitBuf \/ InitTemp

Next == NextNet \/ NextBuf \/ NextTemp

Spec == Init /\ [][Next]_vars

-----------------------------------------------------------------------------
(* C6 *)

\* the statements of the buffer script that buffer or join geometries
BufferGeometrySteps == {"b63", "b66", "b69", "b86", "b97"}

\* a point of an input layer, reprojected from the CRS of its file
InputPoint(path, i, crs) ==
    TransformGeom(files[path].crs, crs, files[path].rows[i].geometry)

\* the rows of a frame are the features of the input file, in the CRS
SameFeatures(frame, path, crs) ==
    /\ Len(frame.rows) = Len(files[path].rows)
    /\ \A i \in 1..Len(frame.rows) : frame.rows[i].geometry = InputPoint(path, i, crs)

(* C6: whatever the CRS of the input files, the buffer script holds
   schools, police, fire and county in EPSG:3857 (coordinates included) at
   every buffer and nearest-join statement; the isochrone script holds the
   schools layer in the projected graph's CRS when the school is matched to
   its nearest node, and the isochrone layer and the exported file carry
   that CRS. *)
C6_SameCrs ==
    /\ (script = "buffer" /\ pc.at \in BufferGeometrySteps) =>
          /\ \A id \in {env.schools, env.police, env.fire, env.county} :
                heap[id].crs = target_crs
          /\ SameFeatures(heap[env.schools], schools_fp, target_crs)
          /\ SameFeatures(heap[env.police], police_fp, target_crs)
          /\ SameFeatures(heap[env.fire], fire_fp, target_crs)
          /\ At("b97") => heap[env.schools_with_police].crs = target_crs
    /\ (script = "network" /\ At("n78")) =>
          /\ heap[env.schools].crs = G.crs
          /\ G.crs = graph_crs
          /\ SameFeatures(heap[env.schools], schools_fp, G.crs)
    /\ (script = "network" /\ env.isochrone_gdf # 0) =>
          heap[env.isochrone_gdf].crs = G.crs
    /\ (script = "network" /\ At("done")) =>
          files[isochrone_output_fp].crs = G.crs

\* the buffer script at its first join with every input in another CRS
C6_Witness ==
    /\ script = "buffer" /\ At("b86")
    /\ \A path \in {schools_fp, police_fp, fire_fp, county_fp} :
          files[path].crs # target_crs
    /\ files[schools_fp].crs # files[police_fp].crs

-----------------------------------------------------------------------------
(* C8 *)

\* the point of input school i, in EPSG:3857
SchoolPoint(i) == InputPoint(schools_fp, i, target_crs)

\* the smallest distance from input school i to a station of a layer
NearestStation(i, path) ==
    MinOf({Distance(SchoolPoint(i), InputPoint(path, j, target_crs)) :
              j \in 1..Len(files[path].rows)})

\* a buffer file holds one disc of radius d per input school, with its name
BufferFileOk(path, d) ==
    /\ Len(files[path].rows) = Len(files[schools_fp].rows)
    /\ \A i \in 1..Len(files[schools_fp].rows) :
          /\ files[path].rows[i].name = files[schools_fp].rows[i].name
          /\ files[path].rows[i].geometry =
                [type |-> "Polygon", x |-> SchoolPoint(i).x, y |-> SchoolPoint(i).y, r |-> d]

(* C8: a finished run of the buffer script has written, for every input
   school, one buffer of each radius (0.5, 1, 1.5 mile) with the school's
   attributes, and Processed_Schools.geojson holds the school with its
   point geometry, dist_to_police the smallest distance from that point to
   a police station and dist_to_fire the smallest distance to a fire
   station; building the buffers leaves the geometries of schools as they
   were. *)
C8_BuffersAndDistances ==
    /\ (script = "buffer" /\ pc.at \in {"b66", "b69", "b73", "b74", "b75", "b86",
                                         "b93", "b97", "b113", "done", "failed"}) =>
          SameFeatures(heap[env.schools], schools_fp, target_crs)
    /\ (script = "buffer" /\ At("done")) =>
          /\ BufferFileOk(buffer_0_5_fp, 80467)
          /\ BufferFileOk(buffer_1_fp, 160934)
          /\ BufferFileOk(buffer_1_5_fp, 241401)
          /\ \A i \in 1..Len(files[schools_fp].rows) :
                \E j \in 1..Len(files[processed_fp].rows) :
                   files[processed_fp].rows[j].name = files[schools_fp].rows[i].name
          /\ \A j \in 1..Len(files[processed_fp].rows) :
                LET row == files[processed_fp].rows[j]
                IN  \E i \in 1..Len(files[schools_fp].rows) :
                       /\ row.name = files[schools_fp].rows[i].name
                       /\ row.geometry = SchoolPoint(i)
                       /\ row.dist_to_police = NearestStation(i, police_fp)
                       /\ row.dist_to_fire = NearestStation(i, fire_fp)

\* a finished run with two schools, two police stations and a school that
\* is away from both
C8_Witness ==
    /\ script = "buffer" /\ At("done")
    /\ Len(files[schools_fp].rows) = 2
    /\ Len(files[police_fp].rows) = 2
    /\ files[schools_fp].crs # target_crs
    /\ \E j \in 1..Len(files[processed_fp].rows) :
          files[processed_fp].rows[j].dist_to_police > 0

-----------------------------------------------------------------------------
(* C10 *)

\* a statement that computes is still ahead of the run
ComputeAhead ==
    CASE script = "network" -> ~ (At("done") \/ (At("n146") /\ pc.i > Len(isochrones)))
      [] script = "buffer" -> pc.at \notin {"b113", "done"}
      [] OTHER -> pc.at \notin {"t7", "done"}

(* C10 as stated: in every script no output file is written while a
   computation is still ahead, a failed run has written no output file,
   and a finished run has written all of them. *)
C10_AllOrNothing ==
    /\ (Written # {} /\ ~ At("failed")) => ~ ComputeAhead
    /\ At("failed") => Written = {}
    /\ At("done") => Written = Outputs

BufferFiles == {buffer_0_5_fp, buffer_1_fp, buffer_1_5_fp}

(* C10 amended: the isochrone script and the reprojection script write
   their one output file only after all their computations, so a failed run
   of them has written nothing; the buffer script writes its three buffer
   files after building the buffers and before the nearest-distance joins,
   so a run that fails in the joins leaves the three buffer files written,
   and it writes Processed_Schools.geojson only after both joins; a
   finished run of any script has written all its output files. *)
C10_WriteOrder ==
    /\ script \in {"network", "reproject"} =>
          /\ Written # {} => At("done")
          /\ At("failed") => Written = {}
    /\ script = "buffer" =>
          /\ Written \cap BufferFiles # {} =>
                pc.at \in {"b74", "b75", "b86", "b93", "b97", "b113", "done", "failed"}
          /\ processed_fp \in Written => At("done")
          /\ At("failed") => Written = BufferFiles
    /\ At("done") => Written = Outputs

\* the buffer script failed in the police join, its buffer files written
C10_Witness ==
    /\ script = "buffer" /\ At("failed")
    /\ Written = BufferFiles

=============================================================================
